---- MODULE Spec2Model ----
(***************************************************************************)
(* A model of blobs3: the path matcher and the authorization engine of     *)
(* access.py, and the chain registry of blockchains.py that the engine     *)
(* consults.                                                               *)
(*                                                                         *)
(* Representation of Python values:                                        *)
(*  - a path component (a str) is the sequence of its "/"-separated        *)
(*    segments: "bucket" is <<"bucket">>, "var/tokenId" is                 *)
(*    <<"var", "tokenId">>.  component.startswith("var/") and              *)
(*    "/" in component are then computed, not assumed;                     *)
(*  - a request path (a str) is the sequence of its "/"-free segments, and *)
(*    path.split("/") turns it into a list of components;                  *)
(*  - a dict is a function, {} is the function with the empty domain;      *)
(*  - an optional int-or-str field is a tagged record (PyNone, PyInt,      *)
(*    PyStr);                                                              *)
(*  - a call either returns a value or raises: Return(v), Raise(e).        *)
(***************************************************************************)
EXTENDS Integers, Sequences, FiniteSets, TLC

VARIABLES
    storage_access_list,  \* AccessManager.storage_access_list
    blockchains,          \* BlockchainManager.blockchains: name -> Blockchain
    pc,                   \* position of the authorization call
    request,              \* its arguments (user_address, access_type, path)
    possible,             \* possible_authorizations: <<rule index, bindings>>
    k,                    \* index of the loop at access.py:162
    outcome,              \* how the call ended: Return(rule index or None) or Raise
    trail,                \* history: what each evaluated candidate did
    mp,                   \* a call of match_paths: its arguments and its result
    ld,                   \* a call of load_access_list_from_string: its argument and result
    s3,                   \* the blob at one S3 URI and the calls of add_trait on it
    timers,               \* BlockchainManager.timers: name -> RepeatingTimer or None
    threads,              \* the caller's thread and the timers' threads: position and locals
    caller,               \* the caller's call of start_healthchecks or stop_healthchecks
    history,              \* history: which calls have returned, what the probes decided
    status                \* a call of health_status: its position and what it has read

healthVars == <<timers, threads, caller, history, status>>

vars == <<storage_access_list, blockchains, pc, request, possible, k, outcome,
          trail, mp, ld, s3, healthVars>>

(***************************************************************************)
(* Bounds of the model.                                                    *)
(***************************************************************************)
MaxPatternLen == 2
MaxPathLen == 3
MaxRules == 2
MaxBalance == 2

(***************************************************************************)
(* Python values.                                                          *)
(***************************************************************************)
None == "None"
PyNone == [t |-> "None", v |-> <<>>]
PyInt(n) == [t |-> "int", v |-> <<n>>]
PyStr(s) == [t |-> "str", v |-> s]

Return(v) == [exc |-> None, value |-> <<v>>]
Raise(e) == [exc |-> e, value |-> <<>>]

EmptyDict == <<>>
DictSet(d, key, value) ==
    [x \in (DOMAIN d) \cup {key} |-> IF x = key THEN value ELSE d[x]]
DictGet(d, key) == IF key \in DOMAIN d THEN d[key] ELSE None

\* Sequences over S of length lo..hi.
SeqsOf(S, lo, hi) == UNION {[1..n -> S] : n \in lo..hi}

(***************************************************************************)
(* access.py: the enumerations.                                            *)
(***************************************************************************)
AuthorizationType == {"PUBLIC", "ERC20", "ERC721", "ERC1155"}
AccessType == {"CREATE", "READ", "UPDATE"}

\* component.startswith("var/")
startswith_var(component) == Len(component) >= 2 /\ component[1] = "var"

\* A validator that accepts every component that starts with "var/".
validate_storage_path_by_prefix(v) ==
    \A i \in 1..Len(v) : ~(Len(v[i]) >= 2 /\ ~startswith_var(v[i]))

\* StorageAccess.validate_storage_path: TRUE when the validator accepts v.
validate_storage_path(v) ==
    \A i \in 1..Len(v) :
        ~(Len(v[i]) >= 2 /\ ~(startswith_var(v[i]) /\ Len(v[i]) = 2))

(***************************************************************************)
(* access.py: match_paths.  match_loop is the for loop at lines 112-116,   *)
(* from index i (1-based) with the bindings collected so far;              *)
(* path_components[i] raises IndexError when i is past the end.            *)
(***************************************************************************)
\* A matcher that keeps the first value bound to a variable token.
RECURSIVE match_loop_first_binding(_, _, _, _)
match_loop_first_binding(i, variable_bindings, path_components, storage_path) ==
    IF i > Len(storage_path)
    THEN Return(<<TRUE, variable_bindings>>)
    ELSE IF i > Len(path_components)
    THEN Raise("IndexError")
    ELSE IF startswith_var(storage_path[i])
    THEN match_loop_first_binding(i + 1,
                    IF storage_path[i] \in DOMAIN variable_bindings
                    THEN variable_bindings
                    ELSE DictSet(variable_bindings, storage_path[i], path_components[i]),
                    path_components, storage_path)
    ELSE IF path_components[i] # storage_path[i]
    THEN Return(<<FALSE, EmptyDict>>)
    ELSE match_loop_first_binding(i + 1, variable_bindings, path_components, storage_path)

\* A matcher that returns what it had bound when a literal differs.
RECURSIVE match_loop_keeps_bindings(_, _, _, _)
match_loop_keeps_bindings(i, variable_bindings, path_components, storage_path) ==
    IF i > Len(storage_path)
    THEN Return(<<TRUE, variable_bindings>>)
    ELSE IF i > Len(path_components)
    THEN Raise("IndexError")
    ELSE IF startswith_var(storage_path[i])
    THEN match_loop_keeps_bindings(i + 1,
                    DictSet(variable_bindings, storage_path[i], path_components[i]),
                    path_components, storage_path)
    ELSE IF path_components[i] # storage_path[i]
    THEN Return(<<FALSE, variable_bindings>>)
    ELSE match_loop_keeps_bindings(i + 1, variable_bindings, path_components, storage_path)

RECURSIVE match_loop(_, _, _, _)
match_loop(i, variable_bindings, path_components, storage_path) ==
    IF i > Len(storage_path)
    THEN Return(<<TRUE, variable_bindings>>)
    ELSE IF i > Len(path_components)
    THEN Raise("IndexError")
    ELSE IF startswith_var(storage_path[i])
    THEN match_loop(i + 1,
                    DictSet(variable_bindings, storage_path[i], path_components[i]),
                    path_components, storage_path)
    ELSE IF path_components[i] # storage_path[i]
    THEN Return(<<FALSE, EmptyDict>>)
    ELSE match_loop(i + 1, variable_bindings, path_components, storage_path)

\* A matcher that rejects a path with more components than the pattern.
match_paths_exact_length(access_type, path_components, storage_access) ==
    IF storage_access.access # access_type
    THEN Return(<<FALSE, EmptyDict>>)
    ELSE IF Len(path_components) # Len(storage_access.storage_path)
    THEN Return(<<FALSE, EmptyDict>>)
    ELSE match_loop(1, EmptyDict, path_components, storage_access.storage_path)

match_paths(access_type, path_components, storage_access) ==
    IF storage_access.access # access_type
    THEN Return(<<FALSE, EmptyDict>>)
    ELSE match_loop(1, EmptyDict, path_components, storage_access.storage_path)

(***************************************************************************)
(* The inputs the model draws from.                                        *)
(***************************************************************************)
Literals == {<<"a">>, <<"b">>}
Variables == {<<"var", "x">>, <<"var", "y">>}
\* What a request path can hold at one position: the literals and a value.
RequestComponents == Literals \cup {<<"42">>}

\* The patterns a loaded rule can have: every component passed the validator.
Patterns ==
    {p \in SeqsOf(Literals \cup Variables, 0, MaxPatternLen) : validate_storage_path(p)}

ContractAddress == "0x49ca1F6801c085ABB165a827baDFD6742a3f8DBc"

AuthorizationSpecification(blockchain, authorization_type, token_id, minimum_balance) ==
    [blockchain |-> blockchain, authorization_type |-> authorization_type,
     contract_address |-> PyStr(<<ContractAddress>>), token_id |-> token_id,
     minimum_balance |-> minimum_balance]

StorageAccess(storage_path, authorization, access) ==
    [storage_path |-> storage_path, authorization |-> authorization,
     access |-> access]

(***************************************************************************)
(* SpecMatch: match_paths as a function of its three arguments.  Init      *)
(* draws the arguments, MatchPathsCall applies the function.               *)
(***************************************************************************)
MatchRules ==
    {StorageAccess(p, AuthorizationSpecification("wyrm", "ERC721", PyStr(<<"var", "x">>), PyInt(1)), a) :
        p \in Patterns, a \in AccessType}

\* No BlockchainManager's threads are part of the specification.
HealthIdle ==
    /\ timers = <<>>
    /\ threads = <<>>
    /\ caller = <<>>
    /\ history = <<>>
    /\ status = [pc |-> "off"]

AuthIdle ==
    /\ storage_access_list = <<>>
    /\ blockchains = <<>>
    /\ pc = "off"
    /\ request = <<>>
    /\ possible = <<>>
    /\ k = 0
    /\ outcome = Raise("pending")
    /\ trail = <<>>

InitMatch ==
    /\ AuthIdle
    /\ \E a \in AccessType, c \in SeqsOf(RequestComponents, 0, MaxPathLen),
          r \in MatchRules :
          mp = [state |-> "called", access_type |-> a, path_components |-> c,
                storage_access |-> r, result |-> Raise("pending")]
    /\ ld = <<>>
    /\ s3 = <<>>
    /\ HealthIdle

MatchPathsCall ==
    /\ mp.state = "called"
    /\ mp' = [mp EXCEPT !.state = "done",
                        !.result = match_paths(mp.access_type, mp.path_components,
                                               mp.storage_access)]
    /\ UNCHANGED <<storage_access_list, blockchains, pc, request, possible, k,
                   outcome, trail, ld, s3, healthVars>>

NextMatch == MatchPathsCall

SpecMatch == InitMatch /\ [][NextMatch]_vars

\* Shorthands for the claims about match_paths.
mpP == mp.storage_access.storage_path
mpC == mp.path_components
mpDone == mp.state = "done"
mpSameAccess == mp.storage_access.access = mp.access_type
VarPositions(p) == {i \in 1..Len(p) : startswith_var(p[i])}
LiteralPositions(p) == {i \in 1..Len(p) : ~startswith_var(p[i])}

\* C6 (as claimed): a path with fewer components than the pattern is a
\* non-match, never an error: match_paths returns (False, {}).
C6_ShortPathIsNonMatch ==
    (mpDone /\ Len(mpC) < Len(mpP)) => mp.result = Return(<<FALSE, EmptyDict>>)

\* C7: a literal-only pattern with the requested access type that equals the
\* path component-wise over the pattern's length matches with empty bindings,
\* whatever trailing components the path has.
C7_LiteralPrefixMatches ==
    (/\ mpDone
     /\ mpSameAccess
     /\ VarPositions(mpP) = {}
     /\ Len(mpC) >= Len(mpP)
     /\ \A i \in 1..Len(mpP) : mpC[i] = mpP[i])
    => mp.result = Return(<<TRUE, EmptyDict>>)

C7_Witness ==
    /\ mpDone
    /\ mpSameAccess
    /\ VarPositions(mpP) = {}
    /\ Len(mpP) >= 2
    /\ Len(mpC) > Len(mpP)
    /\ \A i \in 1..Len(mpP) : mpC[i] = mpP[i]
    /\ mp.result = Return(<<TRUE, EmptyDict>>)

mpMatched == mpDone /\ mp.result.exc = None /\ mp.result.value[1][1]
mpBindings == mp.result.value[1][2]

\* C8 (as claimed): on success there is one binding per variable component
\* of the pattern, keyed by the full token, valued with the path component
\* at the same index.
C8_OneBindingPerVariableComponent ==
    mpMatched =>
        /\ DOMAIN mpBindings = {mpP[i] : i \in VarPositions(mpP)}
        /\ Cardinality(DOMAIN mpBindings) = Cardinality(VarPositions(mpP))
        /\ \A i \in VarPositions(mpP) : mpBindings[mpP[i]] = mpC[i]

\* The last position at which the token occurs in the pattern.
LastPosition(p, token) ==
    CHOOSE i \in 1..Len(p) : p[i] = token /\ \A j \in (i + 1)..Len(p) : p[j] # token

\* C8 (amended): on success there is one binding per distinct variable token
\* of the pattern, keyed by the full token, valued with the path component
\* at the index of the token's last occurrence.
C8_OneBindingPerVariableToken ==
    mpMatched =>
        /\ DOMAIN mpBindings = {mpP[i] : i \in VarPositions(mpP)}
        /\ \A token \in DOMAIN mpBindings :
              mpBindings[token] = mpC[LastPosition(mpP, token)]

C8_Witness ==
    /\ mpMatched
    /\ \E i, j \in VarPositions(mpP) : i < j /\ mpP[i] = mpP[j] /\ mpC[i] # mpC[j]
    /\ Cardinality(DOMAIN mpBindings) = 1

\* C9: when the access types differ, or a literal of the pattern differs from
\* the path component at its index, match_paths returns (False, {}): nothing
\* bound before the mismatch is returned.
C9_MismatchReturnsFalseEmpty ==
    (/\ mpDone
     /\ \/ ~mpSameAccess
        \/ \E i \in LiteralPositions(mpP) : i <= Len(mpC) /\ mpC[i] # mpP[i])
    => mp.result = Return(<<FALSE, EmptyDict>>)

C9_Witness ==
    /\ mpDone
    /\ mpSameAccess
    /\ \E i \in LiteralPositions(mpP) :
          /\ i <= Len(mpC)
          /\ mpC[i] # mpP[i]
          /\ \E j \in VarPositions(mpP) : j < i
    /\ mp.result = Return(<<FALSE, EmptyDict>>)

(***************************************************************************)
(* blockchains.py: the chain registry.  A Blockchain is the record of its  *)
(* mutable fields; lock is TRUE while some thread holds the lock.          *)
(***************************************************************************)
BlockchainDefinitions == ("wyrm" :> [healthy_block_interval |-> 1])

\* BlockchainManager.__init__: the Blockchain built from a definition.
Blockchain(blockchain_def) ==
    [healthy_block_interval |-> blockchain_def.healthy_block_interval,
     last_block_number |-> 0,
     last_block_timestamp |-> 0,
     healthy |-> (blockchain_def.healthy_block_interval <= 0),
     lock |-> FALSE]

BlockchainManager(blockchain_definitions) ==
    [blockchain_name \in DOMAIN blockchain_definitions |->
        Blockchain(blockchain_definitions[blockchain_name])]

\* What client.eth.get_block("latest") can answer.
LatestBlocks == {[number |-> 1, timestamp |-> 10], [number |-> 2, timestamp |-> 20]}

\* A comparison that looks at the block number alone.
healthcheck_by_number(blockchain, current_block) ==
    [blockchain EXCEPT
        !.healthy = ~(current_block.number <= blockchain.last_block_number),
        !.last_block_number = current_block.number,
        !.last_block_timestamp = current_block.timestamp]

\* apply_healthcheck, lines 82-90: the fields after a fetched block.
healthcheck(blockchain, current_block) ==
    [blockchain EXCEPT
        !.healthy = ~(\/ current_block.number <= blockchain.last_block_number
                      \/ current_block.timestamp <= blockchain.last_block_timestamp),
        !.last_block_number = current_block.number,
        !.last_block_timestamp = current_block.timestamp]

\* apply_healthcheck run to completion by the chain's monitor, as a
\* concurrent authorization call sees it: the lock is taken and released
\* within the step.  A lock that is held times the acquisition out (lines
\* 76-78); a get_block that raises leaves the fields as they were and the
\* finally clause releases the lock.
apply_healthcheck(blockchain_name) ==
    /\ blockchain_name \in DOMAIN blockchains
    /\ IF blockchains[blockchain_name].lock
       THEN blockchains' = [blockchains EXCEPT ![blockchain_name].healthy = FALSE]
       ELSE \E fetched \in BOOLEAN :
               IF fetched
               THEN \E current_block \in LatestBlocks :
                       blockchains' = [blockchains EXCEPT
                           ![blockchain_name] = healthcheck(@, current_block)]
               ELSE UNCHANGED blockchains
    /\ UNCHANGED <<storage_access_list, pc, request, possible, k, outcome, trail, mp, ld, s3, healthVars>>

(***************************************************************************)
(* access.py: AccessManager.match.  A rule is named by its position in     *)
(* storage_access_list; match_from is the loop at lines 143-148 from       *)
(* position i with the matches collected so far.  An exception of          *)
(* match_paths ends the loop.                                              *)
(***************************************************************************)
split(path) == [i \in 1..Len(path) |-> <<path[i]>>]

RECURSIVE match_from(_, _, _, _, _)
match_from(i, matching_access_list, access_type, path_components, access_list) ==
    IF i > Len(access_list)
    THEN Return(matching_access_list)
    ELSE LET m == match_paths(access_type, path_components, access_list[i])
         IN IF m.exc # None
            THEN Raise(m.exc)
            ELSE match_from(i + 1,
                            IF m.value[1][1]
                            THEN Append(matching_access_list, <<i, m.value[1][2]>>)
                            ELSE matching_access_list,
                            access_type, path_components, access_list)

match(access_type, path, access_list) ==
    match_from(1, <<>>, access_type, split(path), access_list)

(***************************************************************************)
(* The collaborators of authorization: Web3.toChecksumAddress and the      *)
(* token queries.  An address is a string; ChecksumForm gives the          *)
(* checksummed form of each well-formed one.                               *)
(***************************************************************************)
ChecksumForm ==
    ("0xab5801a7" :> "0xAb5801a7" @@ "0xAb5801a7" :> "0xAb5801a7" @@
     "0xde0b295f" :> "0xDE0b295F" @@ "0xDE0b295F" :> "0xDE0b295F")

toChecksumAddress(address) ==
    IF address \in DOMAIN ChecksumForm
    THEN Return(ChecksumForm[address])
    ELSE Raise("ValueError")

\* What a token query can answer: a value, or a failure of the transport.
BalanceAnswers == {Return(b) : b \in 0..MaxBalance} \cup {Raise("ChainUnavailable")}
OwnerAnswers ==
    {Return(o) : o \in {"0xAb5801a7", "0xDE0b295F"}} \cup {Raise("ChainUnavailable")}
TokenQuery(authorization_type) ==
    IF authorization_type = "ERC721" THEN OwnerAnswers ELSE BalanceAnswers

\* int(s) for the decimal strings the model uses.
Decimals == ("0" :> 0 @@ "1" :> 1 @@ "2" :> 2 @@ "42" :> 42)
int(component) ==
    IF Len(component) = 1 /\ component[1] \in DOMAIN Decimals
    THEN Return(PyInt(Decimals[component[1]]))
    ELSE Raise("ValueError")

(***************************************************************************)
(* access.py: AccessManager.authorization.                                 *)
(***************************************************************************)
\* A substitution that leaves the configured value in place.
substitute_keeps_key(value, variable_bindings) == value

\* lines 177-183: a field whose value is a bound key becomes the bound value.
substitute(value, variable_bindings) ==
    IF value.t = "str" /\ value.v \in DOMAIN variable_bindings
    THEN PyStr(variable_bindings[value.v])
    ELSE value

\* lines 185-187: the same for minimum_balance, through int().
substitute_int(value, variable_bindings) ==
    IF value.t = "str" /\ value.v \in DOMAIN variable_bindings
    THEN int(variable_bindings[value.v])
    ELSE Return(value)

\* A comparison that wants more than the minimum.
at_least_strict(balance, minimum_balance) ==
    IF minimum_balance.t # "int"
    THEN Raise("TypeError")
    ELSE Return(balance > minimum_balance.v[1])

\* a >= b on a query's integer answer and the minimum_balance field.
at_least(balance, minimum_balance) ==
    IF minimum_balance.t # "int"
    THEN Raise("TypeError")
    ELSE Return(balance >= minimum_balance.v[1])

\* A condition that compares the owner with the caller's address as given.
condition_compares_as_given(authorization_type, answer, user_address, minimum_balance) ==
    IF answer.exc # None
    THEN Raise(answer.exc)
    ELSE IF authorization_type = "ERC721"
    THEN LET checksum_address == toChecksumAddress(user_address)
         IN IF checksum_address.exc # None
            THEN Raise(checksum_address.exc)
            ELSE Return(answer.value[1] = user_address)
    ELSE at_least(answer.value[1], minimum_balance)

\* A condition that takes a failed query for a denial.
condition_swallows_failure(authorization_type, answer, user_address, minimum_balance) ==
    IF answer.exc # None
    THEN Return(FALSE)
    ELSE IF authorization_type = "ERC721"
    THEN LET checksum_address == toChecksumAddress(user_address)
         IN IF checksum_address.exc # None
            THEN Raise(checksum_address.exc)
            ELSE Return(answer.value[1] = checksum_address.value[1])
    ELSE at_least(answer.value[1], minimum_balance)

\* lines 189-213: what a candidate's condition decides on the query's answer:
\* Return(TRUE) grants, Return(FALSE) goes on to the next candidate.
condition(authorization_type, answer, user_address, minimum_balance) ==
    IF answer.exc # None
    THEN Raise(answer.exc)
    ELSE IF authorization_type = "ERC721"
    THEN LET checksum_address == toChecksumAddress(user_address)
         IN IF checksum_address.exc # None
            THEN Raise(checksum_address.exc)
            ELSE Return(answer.value[1] = checksum_address.value[1])
    ELSE at_least(answer.value[1], minimum_balance)

\* None as the result of authorization: no rule.
NoRule == 0

\* A check that looks only at whether the chain is registered.
unusable_ignores_health(blockchain_name) ==
    blockchain_name \notin DOMAIN blockchains

\* A check that gives up a chain when any registered chain is unhealthy.
unusable_with_any_unhealthy(blockchain_name) ==
    \/ blockchain_name \notin DOMAIN blockchains
    \/ \E name \in DOMAIN blockchains : ~blockchains[name].healthy

\* line 172: blockchain is None or not blockchain.healthy
unusable(blockchain_name) ==
    \/ blockchain_name \notin DOMAIN blockchains
    \/ ~blockchains[blockchain_name].healthy

\* What the history keeps of one pass of the loop at line 162.
Entry(rule, registered, healthy, queried, contract_address, token_id, minimum_balance, answer, verdict) ==
    [rule |-> rule, registered |-> registered, healthy |-> healthy,
     queried |-> queried, contract_address |-> contract_address,
     token_id |-> token_id, minimum_balance |-> minimum_balance,
     answer |-> answer, verdict |-> verdict]

NoAnswer == Raise("not queried")

\* line 161: the call, to the end of self.match.
authorization(user_address, access_type, path) ==
    /\ pc = "idle"
    /\ request' = [user_address |-> user_address, access_type |-> access_type,
                   path |-> path]
    /\ LET possible_authorizations == match(access_type, path, storage_access_list)
       IN IF possible_authorizations.exc # None
          THEN /\ pc' = "done"
               /\ outcome' = Raise(possible_authorizations.exc)
               /\ UNCHANGED <<possible, k>>
          ELSE /\ pc' = "loop"
               /\ possible' = possible_authorizations.value[1]
               /\ k' = 1
               /\ UNCHANGED outcome
    /\ UNCHANGED <<storage_access_list, blockchains, trail, mp, ld, s3, healthVars>>

\* lines 162-213: one pass of the loop, on candidate possible[k].
authorization_pass ==
    /\ pc = "loop"
    /\ k <= Len(possible)
    /\ LET rule == possible[k][1]
           variable_bindings == possible[k][2]
           spec == storage_access_list[rule].authorization
           registered == spec.blockchain \in DOMAIN blockchains
           healthy == registered /\ blockchains[spec.blockchain].healthy
           contract_address == substitute(spec.contract_address, variable_bindings)
           token_id == substitute(spec.token_id, variable_bindings)
           minimum_balance == substitute_int(spec.minimum_balance, variable_bindings)
       IN IF spec.authorization_type = "PUBLIC"
          THEN /\ trail' = Append(trail, Entry(rule, registered, healthy, FALSE,
                                               PyNone, PyNone, PyNone, NoAnswer, "grant"))
               /\ pc' = "done"
               /\ outcome' = Return(rule)
               /\ UNCHANGED k
          ELSE IF unusable(spec.blockchain)
          THEN /\ trail' = Append(trail, Entry(rule, registered, healthy, FALSE,
                                               PyNone, PyNone, PyNone, NoAnswer, "skip"))
               /\ k' = k + 1
               /\ UNCHANGED <<pc, outcome>>
          ELSE IF minimum_balance.exc # None
          THEN /\ trail' = Append(trail, Entry(rule, registered, healthy, FALSE, contract_address,
                                               token_id, PyNone, NoAnswer, "raise"))
               /\ pc' = "done"
               /\ outcome' = Raise(minimum_balance.exc)
               /\ UNCHANGED k
          ELSE \E answer \in TokenQuery(spec.authorization_type) :
                  LET granted == condition(spec.authorization_type, answer,
                                           request.user_address,
                                           minimum_balance.value[1])
                      verdict == IF granted.exc # None THEN "raise"
                                 ELSE IF granted.value[1] THEN "grant" ELSE "deny"
                  IN /\ trail' = Append(trail,
                            Entry(rule, registered, healthy, TRUE, contract_address,
                                  token_id, minimum_balance.value[1], answer, verdict))
                     /\ IF verdict = "raise"
                        THEN pc' = "done" /\ outcome' = Raise(granted.exc) /\ UNCHANGED k
                        ELSE IF verdict = "grant"
                        THEN pc' = "done" /\ outcome' = Return(rule) /\ UNCHANGED k
                        ELSE k' = k + 1 /\ UNCHANGED <<pc, outcome>>
    /\ UNCHANGED <<storage_access_list, blockchains, request, possible, mp, ld, s3, healthVars>>

\* line 215: the loop is over and nothing granted.
authorization_none ==
    /\ pc = "loop"
    /\ k > Len(possible)
    /\ pc' = "done"
    /\ outcome' = Return(NoRule)
    /\ UNCHANGED <<storage_access_list, blockchains, request, possible, k, trail, mp, ld, s3, healthVars>>

(***************************************************************************)
(* access.py: load_access_list_from_string/_from_file.  list.sort is       *)
(* stable: the rules in ascending order of len(storage_path), those of one *)
(* length in the order of the input.                                       *)
(***************************************************************************)
RECURSIVE sort_from(_, _)
sort_from(n, access_list) ==
    IF \A i \in 1..Len(access_list) : Len(access_list[i].storage_path) < n
    THEN <<>>
    ELSE SelectSeq(access_list, LAMBDA access : Len(access.storage_path) = n)
         \o sort_from(n + 1, access_list)

\* A sort by length that leaves rules of one length in reverse input order.
load_access_list_reversing_ties(access_list) ==
    sort_from(0, [i \in 1..Len(access_list) |-> access_list[Len(access_list) + 1 - i]])

load_access_list(access_list) == sort_from(0, access_list)

\* parse_raw_as(List[StorageAccess], ...): every rule passes its validators,
\* or the whole parse raises.
parse_raw_as(access_list_json) ==
    IF \A i \in 1..Len(access_list_json) :
          validate_storage_path(access_list_json[i].storage_path)
    THEN Return(access_list_json)
    ELSE Raise("ValidationError")

\* load_access_list_from_string: parse, then sort.
load_access_list_from_string(access_list_json) ==
    LET access_list == parse_raw_as(access_list_json)
    IN IF access_list.exc # None
       THEN access_list
       ELSE Return(load_access_list(access_list.value[1]))

(***************************************************************************)
(* Spec: an AccessManager over a loaded rule list and the registry, one    *)
(* authorization call, and the chains' monitors running beside it.         *)
(***************************************************************************)
AuthSpecifications ==
    {AuthorizationSpecification("ghost", "PUBLIC", PyNone, PyNone),
     AuthorizationSpecification("wyrm", "PUBLIC", PyNone, PyNone),
     AuthorizationSpecification("wyrm", "ERC20", PyNone, PyInt(1)),
     AuthorizationSpecification("wyrm", "ERC20", PyInt(7), PyInt(1)),
     AuthorizationSpecification("wyrm", "ERC20", PyStr(<<"var", "x">>), PyNone),
     AuthorizationSpecification("ghost", "ERC20", PyNone, PyInt(1)),
     AuthorizationSpecification("wyrm", "ERC721", PyStr(<<"var", "x">>), PyNone),
     AuthorizationSpecification("wyrm", "ERC1155", PyInt(7), PyInt(1))}

AuthShapes ==
    {<<<< <<"a">> >>, "READ">>,
     <<<< <<"a">>, <<"var", "x">> >>, "READ">>,
     <<<< <<"a">> >>, "CREATE">>}

AuthRules ==
    {StorageAccess(shape[1], specification, shape[2]) :
        shape \in AuthShapes, specification \in AuthSpecifications}

AuthUsers == {"0xab5801a7", "not an address"}
AuthAccessTypes == {"READ", "CREATE"}
AuthPaths == {<<"a">>, <<"a", "42">>, <<"b">>}

Init ==
    /\ \E access_list \in SeqsOf(AuthRules, 0, MaxRules) :
          storage_access_list = load_access_list(access_list)
    /\ blockchains = BlockchainManager(BlockchainDefinitions)
    /\ pc = "idle"
    /\ request = <<>>
    /\ possible = <<>>
    /\ k = 0
    /\ outcome = Raise("pending")
    /\ trail = <<>>
    /\ mp = <<>>
    /\ ld = <<>>
    /\ s3 = <<>>
    /\ HealthIdle

Next ==
    \/ \E user_address \in AuthUsers, access_type \in AuthAccessTypes,
          path \in AuthPaths : authorization(user_address, access_type, path)
    \/ authorization_pass
    \/ authorization_none
    \/ \E blockchain_name \in DOMAIN blockchains : apply_healthcheck(blockchain_name)

Spec == Init /\ [][Next]_vars

(***************************************************************************)
(* The claims about authorization, read off the call's history.            *)
(***************************************************************************)
Done == pc = "done"
Rule(i) == storage_access_list[i]
Rules == 1..Len(storage_access_list)
Passes == 1..Len(trail)

\* The rule's access type is the requested one and its pattern matches the
\* requested path: the path is at least as long as the pattern and equals it
\* at every literal.
Applies(i) ==
    /\ Rule(i).access = request.access_type
    /\ Len(request.path) >= Len(Rule(i).storage_path)
    /\ \A n \in LiteralPositions(Rule(i).storage_path) :
          <<request.path[n]>> = Rule(i).storage_path[n]

\* The positions of the rules that apply, in the order of the list.
Applicable == SelectSeq([i \in Rules |-> i], Applies)

\* Pass j was the last one and the call returned its rule.
Returned(j) == Done /\ j = Len(trail) /\ outcome = Return(trail[j].rule)

\* After pass j the call went on to the next candidate, or fell off the end
\* of the loop and returned None.
WentOn(j) ==
    \/ j < Len(trail)
    \/ j = Len(trail) /\ pc = "loop" /\ k = j + 1
    \/ j = Len(trail) /\ Done /\ outcome = Return(NoRule)

\* C1 (as claimed): the call returns the first rule of the list that applies
\* and whose condition grants, evaluates no rule after it, and returns None
\* when no rule grants.
C1_FirstGrantingRuleOrNone ==
    Done =>
        /\ outcome.exc = None
        /\ Len(trail) <= Len(Applicable)
        /\ \A j \in Passes : trail[j].rule = Applicable[j]
        /\ \A j \in Passes : j < Len(trail) => trail[j].verdict \in {"deny", "skip"}
        /\ IF outcome.value[1] # NoRule
           THEN /\ Len(trail) >= 1
                /\ trail[Len(trail)].verdict = "grant"
                /\ trail[Len(trail)].rule = outcome.value[1]
           ELSE /\ Len(trail) = Len(Applicable)
                /\ \A j \in Passes : trail[j].verdict \in {"deny", "skip"}

\* C2: a non-PUBLIC rule whose chain is not registered or not healthy when
\* the rule is evaluated is skipped: no token query is issued for it, the
\* call does not return it, and the call goes on to the next candidate.
C2_UnusableChainIsSkipped ==
    \A j \in Passes :
        (/\ Rule(trail[j].rule).authorization.authorization_type # "PUBLIC"
         /\ ~(trail[j].registered /\ trail[j].healthy))
        => /\ ~trail[j].queried
           /\ trail[j].verdict = "skip"
           /\ ~Returned(j)
           /\ WentOn(j)

C2_Witness ==
    /\ Done
    /\ Len(trail) = 2
    /\ Rule(trail[1].rule).authorization.authorization_type = "ERC20"
    /\ trail[1].registered
    /\ ~trail[1].healthy
    /\ trail[1].verdict = "skip"
    /\ Rule(trail[2].rule).authorization.authorization_type = "ERC20"
    /\ trail[2].verdict = "grant"
    /\ outcome = Return(trail[2].rule)

\* C3 (as claimed): a PUBLIC rule that applies is returned, whoever the user
\* and whatever the state of its chain, unless an earlier rule granted.
C3_PublicRuleGrants ==
    Done =>
        \A i \in Rules :
            (/\ Rule(i).authorization.authorization_type = "PUBLIC"
             /\ Applies(i)
             /\ \A j \in Passes : ~(trail[j].rule < i /\ trail[j].verdict = "grant"))
            => outcome = Return(i)

\* C4 (as claimed): a candidate whose token query fails is skipped: the call
\* goes on to the next candidate and the failure is not raised.
C4_QueryFailureIsSkipped ==
    \A j \in Passes :
        (trail[j].queried /\ trail[j].answer.exc # None)
        => /\ trail[j].verdict \in {"deny", "skip"}
           /\ WentOn(j)

\* C4 (amended): a candidate whose token query fails ends the call: the
\* failure is raised to the caller, no later candidate is evaluated and no
\* rule is returned.
C4_QueryFailureIsRaised ==
    \A j \in Passes :
        (trail[j].queried /\ trail[j].answer.exc # None)
        => /\ j = Len(trail)
           /\ Done
           /\ outcome = Raise(trail[j].answer.exc)

C4_Witness ==
    /\ Done
    /\ Len(trail) = 1
    /\ trail[1].queried
    /\ trail[1].answer = Raise("ChainUnavailable")
    /\ outcome = Raise("ChainUnavailable")
    /\ Len(possible) = 2
    /\ Rule(possible[2][1]).authorization.authorization_type = "PUBLIC"

\* C5 (as claimed): the call never ends with an exception.
C5_AuthorizationIsTotal == Done => outcome.exc = None

\* C10: on a healthy chain an ERC20 or ERC1155 rule whose query answers a
\* balance grants exactly when the balance is at least the rule's
\* minimum_balance, whatever its token_id; granting is returning the rule.
C10_BalanceThreshold ==
    \A j \in Passes :
        LET spec == Rule(trail[j].rule).authorization
        IN (/\ spec.authorization_type \in {"ERC20", "ERC1155"}
            /\ spec.minimum_balance.t = "int"
            /\ trail[j].healthy)
           => /\ trail[j].queried
              /\ trail[j].answer.exc = None =>
                    /\ (trail[j].answer.value[1] >= spec.minimum_balance.v[1])
                          <=> Returned(j)
                    /\ (trail[j].answer.value[1] < spec.minimum_balance.v[1])
                          <=> (~Returned(j) /\ WentOn(j))

C10_Witness ==
    /\ Done
    /\ Len(trail) = 2
    /\ LET first == Rule(trail[1].rule).authorization
           second == Rule(trail[2].rule).authorization
       IN /\ first.authorization_type = "ERC20"
          /\ first.token_id = PyInt(7)
          /\ first.minimum_balance.t = "int"
          /\ trail[1].answer = Return(first.minimum_balance.v[1] - 1)
          /\ trail[1].verdict = "deny"
          /\ second.authorization_type = "ERC1155"
          /\ second.minimum_balance.t = "int"
          /\ trail[2].answer = Return(second.minimum_balance.v[1])
          /\ outcome = Return(trail[2].rule)

(***************************************************************************)
(* SpecToken: the authorization call over token rules whose token_id is a  *)
(* path variable, a number, or a variable the pattern does not bind, for   *)
(* callers that spell one address in two ways.                             *)
(***************************************************************************)
TokenSpecifications ==
    {AuthorizationSpecification("wyrm", "ERC721", PyStr(<<"var", "x">>), PyNone),
     AuthorizationSpecification("wyrm", "ERC721", PyStr(<<"var", "x">>), PyInt(1)),
     AuthorizationSpecification("wyrm", "ERC721", PyInt(7), PyNone),
     AuthorizationSpecification("wyrm", "ERC1155", PyStr(<<"var", "x">>), PyInt(1))}

TokenShapes ==
    {<<<< <<"a">> >>, "READ">>,
     <<<< <<"a">>, <<"var", "x">> >>, "READ">>}

TokenRules ==
    {StorageAccess(shape[1], specification, shape[2]) :
        shape \in TokenShapes, specification \in TokenSpecifications}

TokenUsers == {"0xab5801a7", "0xAb5801a7", "0xde0b295f", "not an address"}
TokenPaths == {<<"a">>, <<"a", "42">>, <<"a", "1">>}

InitToken ==
    /\ \E access_list \in SeqsOf(TokenRules, 0, MaxRules) :
          storage_access_list = load_access_list(access_list)
    /\ blockchains = BlockchainManager(BlockchainDefinitions)
    /\ pc = "idle"
    /\ request = <<>>
    /\ possible = <<>>
    /\ k = 0
    /\ outcome = Raise("pending")
    /\ trail = <<>>
    /\ mp = <<>>
    /\ ld = <<>>
    /\ s3 = <<>>
    /\ HealthIdle

NextToken ==
    \/ \E user_address \in TokenUsers, path \in TokenPaths :
          authorization(user_address, "READ", path)
    \/ authorization_pass
    \/ authorization_none
    \/ \E blockchain_name \in DOMAIN blockchains : apply_healthcheck(blockchain_name)

SpecToken == InitToken /\ [][NextToken]_vars

\* The account a spelling of an address names, whatever its casing.
Account ==
    ("0xab5801a7" :> "ab5801a7" @@ "0xAb5801a7" :> "ab5801a7" @@
     "0xde0b295f" :> "de0b295f" @@ "0xDE0b295F" :> "de0b295f")

\* C11: an ERC721 rule whose ownerOf query answers grants exactly when the
\* owner and the caller are one account, however the caller's address is
\* cased and whatever the rule's minimum_balance is.
C11_OwnerDecides ==
    \A j \in Passes :
        LET spec == Rule(trail[j].rule).authorization
        IN (/\ spec.authorization_type = "ERC721"
            /\ trail[j].queried
            /\ trail[j].answer.exc = None
            /\ request.user_address \in DOMAIN Account)
           => /\ trail[j].verdict \in {"grant", "deny"}
              /\ trail[j].verdict = "grant"
                    <=> Account[trail[j].answer.value[1]] = Account[request.user_address]

\* A caller who writes the address in lower case is granted by a rule that
\* carries a minimum_balance, on an owner in checksum casing.
C11_Witness ==
    /\ Done
    /\ Len(trail) = 1
    /\ Rule(trail[1].rule).authorization.authorization_type = "ERC721"
    /\ Rule(trail[1].rule).authorization.minimum_balance = PyInt(1)
    /\ request.user_address = "0xab5801a7"
    /\ trail[1].answer = Return("0xAb5801a7")
    /\ Returned(1)

\* The pattern of rule i binds the variable token.
Binds(i, token) == \E n \in VarPositions(Rule(i).storage_path) : Rule(i).storage_path[n] = token

\* The request's path component under the variable token of rule i.
BoundComponent(i, token) == <<request.path[LastPosition(Rule(i).storage_path, token)]>>

\* What the query of rule i is given for a configured value.
Substituted(i, value) ==
    IF value.t = "str" /\ Binds(i, value.v)
    THEN PyStr(BoundComponent(i, value.v))
    ELSE value

\* C12: the token query of a rule is given, for contract_address and
\* token_id, the path component bound to the configured value when that
\* value is a variable the pattern binds and the configured value otherwise,
\* and for minimum_balance the same with the bound component read as an
\* integer.
C12_BoundValuesSubstituted ==
    \A j \in Passes :
        LET i == trail[j].rule
            spec == Rule(i).authorization
        IN trail[j].queried
           => /\ trail[j].contract_address = Substituted(i, spec.contract_address)
              /\ trail[j].token_id = Substituted(i, spec.token_id)
              /\ trail[j].minimum_balance =
                    IF spec.minimum_balance.t = "str" /\ Binds(i, spec.minimum_balance.v)
                    THEN PyInt(Decimals[BoundComponent(i, spec.minimum_balance.v)[1]])
                    ELSE spec.minimum_balance

\* A rule on a/var/x with token_id var/x, asked for a/42, queries the owner
\* of token "42" and grants its owner.
C12_Witness ==
    /\ Done
    /\ request.path = <<"a", "42">>
    /\ Len(trail) = 1
    /\ Rule(trail[1].rule).authorization.authorization_type = "ERC721"
    /\ Rule(trail[1].rule).authorization.token_id = PyStr(<<"var", "x">>)
    /\ trail[1].queried
    /\ trail[1].token_id = PyStr(<<"42">>)
    /\ trail[1].answer.exc = None
    /\ Account[trail[1].answer.value[1]] = Account[request.user_address]
    /\ Returned(1)

(***************************************************************************)
(* SpecLoad: load_access_list_from_string as a function of the list it is  *)
(* given.  Init draws the list, LoadCall applies the function.             *)
(***************************************************************************)
MaxLoadRules == 3

\* Patterns as they can be written in a rule file: well-formed ones of
\* lengths 0 to 2, "var/" with an empty name, and components with a "/"
\* that are not variable tokens.
LoadPatterns ==
    {<< >>,
     << <<"a">> >>,
     << <<"b">> >>,
     << <<"var", "x">> >>,
     << <<"var", "">> >>,
     << <<"a">>, <<"var", "x">> >>,
     << <<"a">>, <<"b">> >>,
     << <<"a", "b">> >>,
     << <<"a">>, <<"var", "x", "y">> >>}

LoadRules ==
    {StorageAccess(storage_path, AuthorizationSpecification("wyrm", "PUBLIC", PyNone, PyNone), access) :
        storage_path \in LoadPatterns, access \in {"READ", "CREATE"}}

LoadPaths == {<<"a">>, <<"a", "b">>, <<"b", "a", "a">>}

InitLoad ==
    /\ AuthIdle
    /\ mp = <<>>
    /\ s3 = <<>>
    /\ \E access_list_json \in SeqsOf(LoadRules, 0, MaxLoadRules) :
          ld = [state |-> "called", access_list_json |-> access_list_json,
                result |-> Raise("pending")]
    /\ HealthIdle

LoadCall ==
    /\ ld.state = "called"
    /\ ld' = [ld EXCEPT !.state = "done",
                        !.result = load_access_list_from_string(ld.access_list_json)]
    /\ UNCHANGED <<storage_access_list, blockchains, pc, request, possible, k,
                   outcome, trail, mp, s3, healthVars>>

NextLoad == LoadCall

SpecLoad == InitLoad /\ [][NextLoad]_vars

ldDone == ld.state = "done"
ldLoaded == ldDone /\ ld.result.exc = None
ldInput == ld.access_list_json
ldList == ld.result.value[1]

\* The one-to-one maps of 1..n onto itself.
Rearrangements(n) == {f \in [1..n -> 1..n] : \A i, j \in 1..n : f[i] = f[j] => i = j}

\* sorted is the list given, ascending in the length of storage_path, the
\* rules of one length in the order they were given in.
StableByLength(sorted, given) ==
    /\ Len(sorted) = Len(given)
    /\ \E from \in Rearrangements(Len(given)) :
          /\ \A i \in 1..Len(given) : sorted[i] = given[from[i]]
          /\ \A i, j \in 1..Len(given) :
                i < j => \/ Len(sorted[i].storage_path) < Len(sorted[j].storage_path)
                         \/ /\ Len(sorted[i].storage_path) = Len(sorted[j].storage_path)
                            /\ from[i] < from[j]

\* C13: a loaded rule list is the given list in ascending order of pattern
\* length, ties in the order given; so the candidates AccessManager.match
\* hands to the loop for any request, which the loop evaluates in that order,
\* never have a longer pattern before a shorter one.
C13_LoadedListIsStableSort ==
    ldLoaded =>
        /\ StableByLength(ldList, ldInput)
        /\ \A access_type \in {"READ", "CREATE"}, path \in LoadPaths :
              LET candidates == match(access_type, path, ldList)
              IN candidates.exc = None =>
                    \A a, b \in 1..Len(candidates.value[1]) :
                        a < b => Len(ldList[candidates.value[1][a][1]].storage_path)
                                    <= Len(ldList[candidates.value[1][b][1]].storage_path)

\* A list given as long, short, short is loaded as short, short, long, the
\* two short rules in the order given.
C13_Witness ==
    /\ ldLoaded
    /\ Len(ldInput) = 3
    /\ Len(ldInput[1].storage_path) = 2
    /\ Len(ldInput[2].storage_path) = 1
    /\ Len(ldInput[3].storage_path) = 1
    /\ ldInput[2] # ldInput[3]
    /\ ldList = <<ldInput[2], ldInput[3], ldInput[1]>>
    /\ match("READ", <<"a", "b">>, ldList).exc = None
    /\ Len(match("READ", <<"a", "b">>, ldList).value[1]) = 3

\* A component with a "/" in it that is not "var/" and a name without "/".
Malformed(component) == Len(component) >= 2 /\ ~(Len(component) = 2 /\ component[1] = "var")

\* C14: loading fails with a validation error whenever some component of
\* some rule's storage_path contains "/" and is not of the two-segment form
\* var/<name>; every component of a loaded list has no "/" or is such a token.
C14_MalformedComponentFailsLoad ==
    ldDone =>
        /\ (\E i \in 1..Len(ldInput) : \E n \in 1..Len(ldInput[i].storage_path) :
               Malformed(ldInput[i].storage_path[n]))
              => ld.result = Raise("ValidationError")
        /\ ldLoaded =>
              \A i \in 1..Len(ldList) : \A n \in 1..Len(ldList[i].storage_path) :
                  \/ Len(ldList[i].storage_path[n]) = 1
                  \/ /\ Len(ldList[i].storage_path[n]) = 2
                     /\ ldList[i].storage_path[n][1] = "var"

\* A list whose second rule has the component var/x/y fails to load, though
\* its first rule is well-formed.
C14_Witness ==
    /\ ldDone
    /\ Len(ldInput) = 2
    /\ ldInput[1].storage_path = << <<"a">>, <<"var", "x">> >>
    /\ ldInput[2].storage_path = << <<"a">>, <<"var", "x", "y">> >>
    /\ ld.result = Raise("ValidationError")

(***************************************************************************)
(* SpecHealth: a BlockchainManager over a monitored chain and a chain that *)
(* is assumed healthy, its caller and its timers' threads.  The caller     *)
(* makes up to MaxCalls calls of start_healthchecks and stop_healthchecks,  *)
(* in any order; a thread's step is one statement of blockchains.py, and    *)
(* the threads interleave at every statement.                               *)
(***************************************************************************)
MaxBlock == 2
MaxCalls == 2

HealthDefinitions ==
    ("wyrm" :> [healthy_block_interval |-> 1] @@ "eth" :> [healthy_block_interval |-> 0])

\* The order of the dicts blockchains and timers: that of the definitions.
HealthOrder == <<"wyrm", "eth">>

\* What client.eth.get_block("latest") can answer to a healthcheck.
HealthBlocks == [number : 1..MaxBlock, timestamp : 1..MaxBlock]
NoBlock == [number |-> 0, timestamp |-> 0]

\* RepeatingTimer.__init__, and the None that stands for no timer.
RepeatingTimer == [exists |-> TRUE, started |-> FALSE, stop_event |-> FALSE]
NoTimer == [exists |-> FALSE, started |-> FALSE, stop_event |-> FALSE]

\* BlockchainManager.__init__: the timers.
Timers(blockchain_definitions) ==
    [blockchain_name \in DOMAIN blockchain_definitions |->
        IF blockchain_definitions[blockchain_name].healthy_block_interval <= 0
        THEN NoTimer
        ELSE RepeatingTimer]

\* The caller's thread, and one thread for each timer, named as its chain.
ThreadIds == {"main"} \cup {name \in DOMAIN timers : timers[name].exists}

\* A thread at the first statement of apply_healthcheck(blockchains[name]).
BeginProbe(thread, name) ==
    [thread EXCEPT !.pc = "acquire", !.blockchain = name, !.acquired = "unset",
                   !.current_block = NoBlock]

\* Where a thread goes on when its apply_healthcheck returns or raises: a
\* timer to the next wait of RepeatingTimer.run, or out of run with the
\* exception; the caller to the next chain of start_healthchecks, lines
\* 172-173, then to the timers, or out of start_healthchecks with the
\* exception.
Resume(t, raises) ==
    IF t # "main"
    THEN /\ threads' = [threads EXCEPT ![t].pc = IF raises THEN "dead" ELSE "wait"]
         /\ UNCHANGED caller
    ELSE IF raises
    THEN /\ threads' = [threads EXCEPT ![t].pc = "caller"]
         /\ caller' = [caller EXCEPT !.op = "idle", !.result = "raised"]
    ELSE IF caller.i < Len(HealthOrder)
    THEN /\ threads' = [threads EXCEPT ![t] = BeginProbe(@, HealthOrder[caller.i + 1])]
         /\ caller' = [caller EXCEPT !.i = @ + 1]
    ELSE /\ threads' = [threads EXCEPT ![t].pc = "caller"]
         /\ caller' = [caller EXCEPT !.op = "start_timers", !.i = 1]

\* The fields of a chain that health_status reports.
Triple(blockchain) ==
    <<blockchain.last_block_number, blockchain.last_block_timestamp, blockchain.healthy>>

\* The history after a write to the chain: where health_status is part of
\* the specification it keeps every value the three fields have had together.
Track(name) ==
    IF status.pc = "off"
    THEN history
    ELSE [history EXCEPT !.held[name] = @ \cup {Triple(blockchains'[name])}]

authVars == <<storage_access_list, pc, request, possible, k, outcome, trail, mp, ld, s3>>

InitHealth ==
    /\ storage_access_list = <<>>
    /\ pc = "off"
    /\ request = <<>>
    /\ possible = <<>>
    /\ k = 0
    /\ outcome = Raise("pending")
    /\ trail = <<>>
    /\ mp = <<>>
    /\ ld = <<>>
    /\ s3 = <<>>
    /\ blockchains = BlockchainManager(HealthDefinitions)
    /\ timers = Timers(HealthDefinitions)
    /\ threads = [t \in {"main"} \cup {name \in DOMAIN HealthDefinitions :
                                          HealthDefinitions[name].healthy_block_interval > 0} |->
                    [pc |-> IF t = "main" THEN "caller" ELSE "new",
                     blockchain |-> IF t = "main" THEN "none" ELSE t,
                     acquired |-> "unset", current_block |-> NoBlock]]
    /\ caller = [op |-> "idle", i |-> 0, calls |-> 0, after_stop |-> FALSE,
                 result |-> "none"]
    /\ history = [stopped |-> "no", starts |-> 0,
                  marks |-> [name \in DOMAIN HealthDefinitions |-> <<>>]]
    /\ status = [pc |-> "off"]

\* start_healthchecks is called: line 172, the first apply_healthcheck.
start_healthchecks ==
    /\ caller.op = "idle"
    /\ caller.calls < MaxCalls
    /\ caller' = [op |-> "start_probes", i |-> 1, calls |-> caller.calls + 1,
                  after_stop |-> history.stopped # "no", result |-> "none"]
    /\ threads' = [threads EXCEPT !["main"] = BeginProbe(@, HealthOrder[1])]
    /\ history' = [history EXCEPT !.starts = @ + 1]
    /\ UNCHANGED <<authVars, status, blockchains, timers>>

\* lines 174-176: one pass of the loop over the timers.  Thread.start on a
\* thread that was started before raises RuntimeError.
timer_start ==
    /\ caller.op = "start_timers"
    /\ LET name == HealthOrder[caller.i]
           last == caller.i = Len(HealthOrder)
       IN IF timers[name].exists /\ timers[name].started
          THEN /\ caller' = [caller EXCEPT !.op = "idle", !.result = "RuntimeError"]
               /\ UNCHANGED <<timers, threads>>
          ELSE /\ IF timers[name].exists
                  THEN /\ timers' = [timers EXCEPT ![name].started = TRUE]
                       /\ threads' = [threads EXCEPT ![name].pc = "wait"]
                  ELSE UNCHANGED <<timers, threads>>
               /\ caller' = IF last
                            THEN [caller EXCEPT !.op = "idle", !.result = "returned"]
                            ELSE [caller EXCEPT !.i = @ + 1]
    /\ UNCHANGED <<authVars, status, blockchains, history>>

\* stop_healthchecks is called.
stop_healthchecks ==
    /\ caller.op = "idle"
    /\ caller.calls < MaxCalls
    /\ caller' = [op |-> "stop_timers", i |-> 1, calls |-> caller.calls + 1,
                  after_stop |-> FALSE, result |-> "none"]
    /\ history' = [history EXCEPT !.stopped = IF @ = "no" THEN "called" ELSE @]
    /\ UNCHANGED <<authVars, status, blockchains, timers, threads>>

\* lines 179-181: one pass of the loop of stop_healthchecks, to timer.stop()
\* when there is a timer; the return of stop_healthchecks after the last.
timer_stop ==
    /\ caller.op = "stop_timers"
    /\ LET name == HealthOrder[caller.i]
           last == caller.i = Len(HealthOrder)
       IN IF timers[name].exists
          THEN /\ timers' = [timers EXCEPT ![name].stop_event = TRUE]
               /\ caller' = [caller EXCEPT !.op = "stop_healthy"]
               /\ UNCHANGED history
          ELSE /\ caller' = IF last
                            THEN [caller EXCEPT !.op = "idle", !.result = "returned"]
                            ELSE [caller EXCEPT !.i = @ + 1]
               /\ history' = IF last THEN [history EXCEPT !.stopped = "returned"]
                             ELSE history
               /\ UNCHANGED timers
    /\ UNCHANGED <<authVars, status, blockchains, threads>>

\* line 182: self.blockchains[blockchain_name].healthy = False, and the
\* return of stop_healthchecks after the last timer.
stop_healthy ==
    /\ caller.op = "stop_healthy"
    /\ LET name == HealthOrder[caller.i]
           last == caller.i = Len(HealthOrder)
       IN /\ blockchains' = [blockchains EXCEPT ![name].healthy = FALSE]
          /\ caller' = IF last
                       THEN [caller EXCEPT !.op = "idle", !.result = "returned"]
                       ELSE [caller EXCEPT !.op = "stop_timers", !.i = @ + 1]
          /\ history' = IF last THEN [Track(name) EXCEPT !.stopped = "returned"]
                        ELSE Track(name)
    /\ UNCHANGED <<authVars, status, timers, threads>>

\* RepeatingTimer.run, line 120: stop_event.wait(interval_seconds) returns
\* True when the event is set, and the thread ends; it returns False when
\* the interval has passed, and the callback is called.
run_wait(t) ==
    /\ t # "main"
    /\ threads[t].pc = "wait"
    /\ threads' = [threads EXCEPT ![t] = IF timers[t].stop_event
                                         THEN [@ EXCEPT !.pc = "dead"]
                                         ELSE BeginProbe(@, t)]
    /\ UNCHANGED <<authVars, status, blockchains, timers, caller, history>>

\* An acquisition that does not look at the lock.
lock_acquire_barges(t) ==
    /\ threads[t].pc = "acquire"
    /\ blockchains' = [blockchains EXCEPT ![threads[t].blockchain].lock = TRUE]
    /\ threads' = [threads EXCEPT ![t].pc = "get_block", ![t].acquired = "yes"]
    /\ UNCHANGED <<authVars, status, timers, caller, history>>

\* apply_healthcheck, line 74: the lock is free and is acquired.
lock_acquire(t) ==
    /\ threads[t].pc = "acquire"
    /\ ~blockchains[threads[t].blockchain].lock
    /\ blockchains' = [blockchains EXCEPT ![threads[t].blockchain].lock = TRUE]
    /\ threads' = [threads EXCEPT ![t].pc = "get_block", ![t].acquired = "yes"]
    /\ UNCHANGED <<authVars, status, timers, caller, history>>

\* An acquisition that goes on into the section when it has timed out.
lock_acquire_timeout_goes_on(t) ==
    /\ threads[t].pc = "acquire"
    /\ blockchains[threads[t].blockchain].lock
    /\ threads' = [threads EXCEPT ![t].pc = "get_block", ![t].acquired = "no"]
    /\ UNCHANGED <<authVars, status, blockchains, timers, caller, history>>

\* line 74: the lock is held for the second the acquisition waits.
lock_acquire_timeout(t) ==
    /\ threads[t].pc = "acquire"
    /\ blockchains[threads[t].blockchain].lock
    /\ threads' = [threads EXCEPT ![t].pc = "not_acquired", ![t].acquired = "no"]
    /\ UNCHANGED <<authVars, status, blockchains, timers, caller, history>>

\* A probe that gives the lock back though it never had it.
not_acquired_releases(t) ==
    /\ threads[t].pc = "not_acquired"
    /\ blockchains' = [blockchains EXCEPT ![threads[t].blockchain].healthy = FALSE,
                                          ![threads[t].blockchain].lock = FALSE]
    /\ Resume(t, FALSE)
    /\ history' = Track(threads[t].blockchain)
    /\ UNCHANGED <<authVars, status, timers>>

\* lines 76-78: not acquired: healthy = False, return.
not_acquired(t) ==
    /\ threads[t].pc = "not_acquired"
    /\ blockchains' = [blockchains EXCEPT ![threads[t].blockchain].healthy = FALSE]
    /\ Resume(t, FALSE)
    /\ history' = Track(threads[t].blockchain)
    /\ UNCHANGED <<authVars, status, timers>>

\* line 81: get_block("latest") answers a block, or raises and control goes
\* to the finally clause.
get_block(t) ==
    /\ threads[t].pc = "get_block"
    /\ \/ \E current_block \in HealthBlocks :
             threads' = [threads EXCEPT ![t].pc = "compare",
                                        ![t].current_block = current_block]
       \/ threads' = [threads EXCEPT ![t].pc = "release_raise"]
    /\ UNCHANGED <<authVars, status, blockchains, timers, caller, history>>

\* lines 82-88: healthy is set from the comparison with the last block.
compare_block(t) ==
    /\ threads[t].pc = "compare"
    /\ LET name == threads[t].blockchain
           healthy == healthcheck(blockchains[name], threads[t].current_block).healthy
       IN /\ blockchains' = [blockchains EXCEPT ![name].healthy = healthy]
          /\ history' = [Track(name) EXCEPT !.marks[name] =
                            IF Len(@) < 2 THEN Append(@, healthy) ELSE <<@[2], healthy>>]
    /\ threads' = [threads EXCEPT ![t].pc = "set_number"]
    /\ UNCHANGED <<authVars, status, timers, caller>>

\* line 89
set_last_block_number(t) ==
    /\ threads[t].pc = "set_number"
    /\ blockchains' = [blockchains EXCEPT ![threads[t].blockchain].last_block_number =
                          threads[t].current_block.number]
    /\ threads' = [threads EXCEPT ![t].pc = "set_timestamp"]
    /\ history' = Track(threads[t].blockchain)
    /\ UNCHANGED <<authVars, status, timers, caller>>

\* line 90
set_last_block_timestamp(t) ==
    /\ threads[t].pc = "set_timestamp"
    /\ blockchains' = [blockchains EXCEPT ![threads[t].blockchain].last_block_timestamp =
                          threads[t].current_block.timestamp]
    /\ threads' = [threads EXCEPT ![t].pc = "release"]
    /\ history' = Track(threads[t].blockchain)
    /\ UNCHANGED <<authVars, status, timers, caller>>

\* A finally clause that leaves the lock held.
lock_release_keeps(t) ==
    /\ threads[t].pc \in {"release", "release_raise"}
    /\ Resume(t, threads[t].pc = "release_raise")
    /\ UNCHANGED <<authVars, status, blockchains, timers, history>>

\* lines 91-92: the finally clause releases the lock; apply_healthcheck
\* returns, or the exception of get_block goes on to the caller.
lock_release(t) ==
    /\ threads[t].pc \in {"release", "release_raise"}
    /\ blockchains' = [blockchains EXCEPT ![threads[t].blockchain].lock = FALSE]
    /\ Resume(t, threads[t].pc = "release_raise")
    /\ UNCHANGED <<authVars, status, timers, history>>

NextHealth ==
    \/ start_healthchecks
    \/ timer_start
    \/ stop_healthchecks
    \/ timer_stop
    \/ stop_healthy
    \/ \E t \in ThreadIds : run_wait(t)
    \/ \E t \in ThreadIds : lock_acquire(t)
    \/ \E t \in ThreadIds : lock_acquire_timeout(t)
    \/ \E t \in ThreadIds : not_acquired(t)
    \/ \E t \in ThreadIds : get_block(t)
    \/ \E t \in ThreadIds : compare_block(t)
    \/ \E t \in ThreadIds : set_last_block_number(t)
    \/ \E t \in ThreadIds : set_last_block_timestamp(t)
    \/ \E t \in ThreadIds : lock_release(t)

SpecHealth == InitHealth /\ [][NextHealth]_vars

(***************************************************************************)
(* The claims about the healthchecks.                                      *)
(***************************************************************************)
Chain(t) == blockchains[threads[t].blockchain]
InProbe(t) ==
    threads[t].pc \in {"acquire", "not_acquired", "get_block", "compare", "set_number",
                       "set_timestamp", "release", "release_raise"}
Monitored == {name \in DOMAIN timers : timers[name].exists}
Exempt == {name \in DOMAIN timers : ~timers[name].exists}

C16_ExemptChainUntouched ==
    \A name \in Exempt :
        /\ blockchains[name].healthy
        /\ blockchains[name].last_block_number = 0
        /\ blockchains[name].last_block_timestamp = 0
        /\ \A t \in ThreadIds : ~(InProbe(t) /\ threads[t].blockchain = name)

\* C17 (as claimed): once stop_healthchecks has returned, every chain with a
\* timer is unhealthy, in that state and in every later one.
C17_StoppedStaysUnhealthy ==
    history.stopped = "returned" => \A name \in Monitored : ~blockchains[name].healthy

\* C18 (as claimed): once stop_healthchecks has returned no timer's thread is
\* in apply_healthcheck: none was in it when the call returned and none
\* enters it afterwards.
C18_NoProbeAfterStop ==
    history.stopped = "returned" => \A t \in ThreadIds \ {"main"} : ~InProbe(t)

\* C19 (as claimed): a start_healthchecks that is called after a call of
\* stop_healthchecks runs no probe on a chain with a timer, and when it is
\* over every such chain is unhealthy.
C19_NoRestartAfterStop ==
    caller.after_stop =>
        /\ ~(InProbe("main") /\ threads["main"].blockchain \in Monitored)
        /\ caller.op = "idle" => \A name \in Monitored : ~blockchains[name].healthy

\* C20: a probe whose lock acquisition times out sets healthy to False and
\* returns: the last block number and timestamp and the lock stay as they
\* are, and no block has been fetched.
C20_LockTimeoutOnlyMarksUnhealthy ==
    [][\A t \in ThreadIds :
          LET name == threads[t].blockchain
          IN /\ (threads[t].pc = "acquire" /\ threads'[t].pc = "not_acquired")
                   => blockchains' = blockchains
             /\ threads[t].pc = "not_acquired"
                   => \/ threads'[t] = threads[t]
                      \/ /\ blockchains' = [blockchains EXCEPT ![name].healthy = FALSE]
                         /\ threads[t].current_block = NoBlock
                         /\ threads'[t].pc \in {"wait", "caller", "acquire"}
                         /\ threads'[t].pc = "acquire" =>
                               /\ t = "main"
                               /\ threads'[t].blockchain # name
    ]_vars

\* The timer's probe has timed out on the lock while the caller's probe, in
\* a second start_healthchecks, holds it: the timer is back in its wait, the
\* chain is unhealthy and the lock is still held by the caller.
C20_Witness ==
    /\ threads["wyrm"].pc = "wait"
    /\ threads["wyrm"].acquired = "no"
    /\ threads["main"].pc \in {"get_block", "compare", "set_number", "set_timestamp", "release"}
    /\ threads["main"].blockchain = "wyrm"
    /\ blockchains["wyrm"].lock
    /\ ~blockchains["wyrm"].healthy
    /\ blockchains["wyrm"].last_block_number > 0

\* C21 (as claimed): a probe whose get_block has raised leaves the chain
\* unhealthy: when control is in the finally clause, which only releases the
\* lock the probe holds, the chain's healthy flag is False.
C21_FailedFetchMarksUnhealthy ==
    \A t \in ThreadIds :
        threads[t].pc = "release_raise"
            => /\ Chain(t).lock
               /\ ~Chain(t).healthy

\* C22 (as claimed): a get_block that raises does not end monitoring: no
\* timer's thread ends before stop_healthchecks is called, and no call of
\* start_healthchecks ends with the probe's exception.
C22_FailedFetchIsNotFatal ==
    /\ \A t \in ThreadIds \ {"main"} : threads[t].pc = "dead" => history.stopped # "no"
    /\ caller.result # "raised"

\* The thread is at a statement that writes a field of its chain's health
\* state: lines 77, 86/88, 89, 90 of apply_healthcheck.
AtWrite(t) == threads[t].pc \in {"not_acquired", "compare", "set_number", "set_timestamp"}

\* C23 (as claimed): the health state of a chain is written by the thread of
\* its own timer alone: no other thread is at a statement of
\* apply_healthcheck that writes it, and the caller is not at the statement
\* of stop_healthchecks that does.
C23_OnlyMonitorWrites ==
    /\ \A t \in ThreadIds : AtWrite(t) => t = threads[t].blockchain
    /\ caller.op # "stop_healthy"

\* C23 (amended): last_block_number and last_block_timestamp are written
\* only by a thread that has acquired the chain's lock and holds it, so by
\* one thread at a time, be it the timer's or the caller's.
C23_LastSeenWrittenUnderLock ==
    \A t \in ThreadIds :
        threads[t].pc \in {"set_number", "set_timestamp"}
            => /\ threads[t].acquired = "yes"
               /\ Chain(t).lock
               /\ \A u \in ThreadIds \ {t} :
                     ~(/\ threads[u].blockchain = threads[t].blockchain
                       /\ threads[u].pc \in {"set_number", "set_timestamp"})

\* The caller, in a second start_healthchecks, is writing the monitored
\* chain's last block number under the lock while the timer's thread waits
\* for the lock.
C23_Witness ==
    /\ threads["main"].pc = "set_number"
    /\ threads["main"].blockchain = "wyrm"
    /\ threads["wyrm"].pc = "acquire"
    /\ blockchains["wyrm"].lock

\* C26: while start_healthchecks has been called at most once, no two
\* threads probe the same chain at once, and no acquisition of a lock times
\* out: no thread is in or past the branch of lines 75-78.
C26_SingleStartNeverTimesOut ==
    history.starts <= 1 =>
        /\ \A t, u \in ThreadIds :
               (t # u /\ InProbe(t) /\ InProbe(u)) => threads[t].blockchain # threads[u].blockchain
        /\ \A t \in ThreadIds :
               /\ threads[t].pc # "not_acquired"
               /\ threads[t].acquired # "no"
               /\ threads[t].pc = "acquire" => ~Chain(t).lock

\* After the one start_healthchecks has returned, the timer's thread is about
\* to acquire the lock that the caller's probe of the same chain released.
C26_Witness ==
    /\ history.starts = 1
    /\ caller.op = "idle"
    /\ caller.result = "returned"
    /\ Len(history.marks["wyrm"]) >= 1
    /\ threads["wyrm"].pc = "acquire"
    /\ threads["main"].pc = "caller"

(***************************************************************************)
(* SpecStatus: health_status read on the caller's thread while the         *)
(* monitored chain's timer runs.  Init is the manager as a                 *)
(* start_healthchecks that met no failure leaves it: every chain probed     *)
(* once, the timer started.                                                 *)
(***************************************************************************)
\* The values the three fields have had together from __init__ to the end
\* of the chain's first probe, which fetched current_block.
HeldAfterFirstProbe(blockchain_def, current_block) ==
    {<<0, 0, blockchain_def.healthy_block_interval <= 0>>,
     <<0, 0, TRUE>>,
     <<current_block.number, 0, TRUE>>,
     <<current_block.number, current_block.timestamp, TRUE>>}

InitStatus ==
    /\ storage_access_list = <<>>
    /\ pc = "off"
    /\ request = <<>>
    /\ possible = <<>>
    /\ k = 0
    /\ outcome = Raise("pending")
    /\ trail = <<>>
    /\ mp = <<>>
    /\ ld = <<>>
    /\ s3 = <<>>
    /\ \E first \in [DOMAIN HealthDefinitions -> HealthBlocks] :
          /\ blockchains = [name \in DOMAIN HealthDefinitions |->
                               healthcheck(Blockchain(HealthDefinitions[name]), first[name])]
          /\ history = [stopped |-> "no", starts |-> 1,
                        marks |-> [name \in DOMAIN HealthDefinitions |-> <<TRUE>>],
                        held |-> [name \in DOMAIN HealthDefinitions |->
                                     HeldAfterFirstProbe(HealthDefinitions[name], first[name])]]
          /\ threads = [t \in {"main"} \cup {name \in DOMAIN HealthDefinitions :
                                                HealthDefinitions[name].healthy_block_interval > 0} |->
                          IF t = "main"
                          THEN [pc |-> "caller", blockchain |-> HealthOrder[Len(HealthOrder)],
                                acquired |-> "yes",
                                current_block |-> first[HealthOrder[Len(HealthOrder)]]]
                          ELSE [pc |-> "wait", blockchain |-> t, acquired |-> "unset",
                                current_block |-> NoBlock]]
    /\ timers = [name \in DOMAIN HealthDefinitions |->
                    IF Timers(HealthDefinitions)[name].exists
                    THEN [Timers(HealthDefinitions)[name] EXCEPT !.started = TRUE]
                    ELSE NoTimer]
    /\ caller = [op |-> "idle", i |-> Len(HealthOrder), calls |-> 1, after_stop |-> FALSE,
                 result |-> "returned"]
    /\ status = [pc |-> "idle", i |-> 0, last_block_number |-> 0,
                 last_block_timestamp |-> 0, result |-> <<>>]

\* health_status is called: the comprehension at lines 185-195 comes to the
\* first chain.
health_status ==
    /\ status.pc = "idle"
    /\ status' = [status EXCEPT !.pc = "read_number", !.i = 1]
    /\ UNCHANGED <<authVars, blockchains, timers, threads, caller, history>>

\* line 190
read_last_block_number ==
    /\ status.pc = "read_number"
    /\ status' = [status EXCEPT !.pc = "read_timestamp",
                    !.last_block_number = blockchains[HealthOrder[status.i]].last_block_number]
    /\ UNCHANGED <<authVars, blockchains, timers, threads, caller, history>>

\* line 191
read_last_block_timestamp ==
    /\ status.pc = "read_timestamp"
    /\ status' = [status EXCEPT !.pc = "read_healthy",
                    !.last_block_timestamp = blockchains[HealthOrder[status.i]].last_block_timestamp]
    /\ UNCHANGED <<authVars, blockchains, timers, threads, caller, history>>

\* lines 192-196: healthy is read and the chain's BlockchainHealth is built;
\* after the last chain health_status returns.
read_healthy ==
    /\ status.pc = "read_healthy"
    /\ LET name == HealthOrder[status.i]
           entry == [name |-> name,
                     last_block_number |-> status.last_block_number,
                     last_block_timestamp |-> status.last_block_timestamp,
                     healthy |-> blockchains[name].healthy]
       IN status' = [status EXCEPT
                        !.result = Append(@, entry),
                        !.pc = IF status.i = Len(HealthOrder) THEN "done" ELSE "read_number",
                        !.i = IF status.i = Len(HealthOrder) THEN @ ELSE @ + 1]
    /\ UNCHANGED <<authVars, blockchains, timers, threads, caller, history>>

NextStatus ==
    \/ health_status
    \/ read_last_block_number
    \/ read_last_block_timestamp
    \/ read_healthy
    \/ \E t \in ThreadIds : run_wait(t)
    \/ \E t \in ThreadIds : lock_acquire(t)
    \/ \E t \in ThreadIds : get_block(t)
    \/ \E t \in ThreadIds : compare_block(t)
    \/ \E t \in ThreadIds : set_last_block_number(t)
    \/ \E t \in ThreadIds : set_last_block_timestamp(t)
    \/ \E t \in ThreadIds : lock_release(t)

SpecStatus == InitStatus /\ [][NextStatus]_vars

\* C24 (as claimed): the last_block_number, last_block_timestamp and healthy
\* of every entry health_status has built are values the chain has had
\* together at some moment.
C24_SnapshotIsConsistent ==
    \A e \in 1..Len(status.result) :
        <<status.result[e].last_block_number, status.result[e].last_block_timestamp,
          status.result[e].healthy>> \in history.held[status.result[e].name]

(***************************************************************************)
(* SpecHealthFair: SpecHealth with every thread that is between the        *)
(* acquisition of a lock and its release going on to its next statement:   *)
(* get_block answers or raises, and the statements after it do not block.  *)
(***************************************************************************)
HealthThreads == {"main"} \cup {name \in DOMAIN HealthDefinitions :
                                  HealthDefinitions[name].healthy_block_interval > 0}

InSection(t) ==
    threads[t].pc \in {"get_block", "compare", "set_number", "set_timestamp", "release",
                       "release_raise"}

SectionStep(t) ==
    \/ get_block(t)
    \/ compare_block(t)
    \/ set_last_block_number(t)
    \/ set_last_block_timestamp(t)
    \/ lock_release(t)

SpecHealthFair == SpecHealth /\ \A t \in HealthThreads : WF_vars(SectionStep(t))

\* At most one thread is between the acquisition and the release of a
\* chain's lock, and the lock is held exactly when one is.
MutualExclusion ==
    \A name \in DOMAIN blockchains :
        LET inside == {t \in ThreadIds : InSection(t) /\ threads[t].blockchain = name}
        IN /\ Cardinality(inside) <= 1
           /\ blockchains[name].lock <=> inside # {}

\* C25: in every reachable state at most one probe of a chain is between
\* the acquisition of its lock and the release, the lock is held exactly
\* when one is, and a probe that has acquired the lock releases it.
C25_ProbesExcludeEachOther ==
    /\ []MutualExclusion
    /\ \A t \in HealthThreads : InSection(t) ~> ~InSection(t)

\* The timer's probe is about to release the lock of the monitored chain
\* while the caller's probe of the same chain has given up waiting for it.
C25_Witness ==
    /\ threads["wyrm"].pc = "release"
    /\ threads["main"].pc = "not_acquired"
    /\ threads["main"].blockchain = "wyrm"
    /\ blockchains["wyrm"].lock

(***************************************************************************)
(* SpecChains: two registered chains, start_healthchecks called up to      *)
(* MaxCalls times with the timer's probes running beside the caller's, and *)
(* one authorization call over rules on the two chains.                    *)
(***************************************************************************)
ChainRules ==
    {StorageAccess(<< <<"a">> >>, AuthorizationSpecification(name, "ERC20", PyNone, PyInt(1)),
                   "READ") : name \in DOMAIN HealthDefinitions}

InitChains ==
    /\ \E access_list \in SeqsOf(ChainRules, 2, 2) :
          /\ access_list[1] # access_list[2]
          /\ storage_access_list = load_access_list(access_list)
    /\ blockchains = BlockchainManager(HealthDefinitions)
    /\ pc = "idle"
    /\ request = <<>>
    /\ possible = <<>>
    /\ k = 0
    /\ outcome = Raise("pending")
    /\ trail = <<>>
    /\ mp = <<>>
    /\ ld = <<>>
    /\ s3 = <<>>
    /\ timers = Timers(HealthDefinitions)
    /\ threads = [t \in HealthThreads |->
                    [pc |-> IF t = "main" THEN "caller" ELSE "new",
                     blockchain |-> IF t = "main" THEN "none" ELSE t,
                     acquired |-> "unset", current_block |-> NoBlock]]
    /\ caller = [op |-> "idle", i |-> 0, calls |-> 0, after_stop |-> FALSE,
                 result |-> "none"]
    /\ history = [stopped |-> "no", starts |-> 0,
                  marks |-> [name \in DOMAIN HealthDefinitions |-> <<>>]]
    /\ status = [pc |-> "off"]

NextChains ==
    \/ start_healthchecks
    \/ timer_start
    \/ \E t \in ThreadIds : run_wait(t)
    \/ \E t \in ThreadIds : lock_acquire(t)
    \/ \E t \in ThreadIds : lock_acquire_timeout(t)
    \/ \E t \in ThreadIds : not_acquired(t)
    \/ \E t \in ThreadIds : get_block(t)
    \/ \E t \in ThreadIds : compare_block(t)
    \/ \E t \in ThreadIds : set_last_block_number(t)
    \/ \E t \in ThreadIds : set_last_block_timestamp(t)
    \/ \E t \in ThreadIds : lock_release(t)
    \/ authorization("0xab5801a7", "READ", <<"a">>)
    \/ authorization_pass
    \/ authorization_none

SpecChains == InitChains /\ [][NextChains]_vars

\* The next statement of a probe that is under way.
ProbeStep(t) ==
    \/ lock_acquire(t)
    \/ lock_acquire_timeout(t)
    \/ not_acquired(t)
    \/ SectionStep(t)

\* A step of a thread's probe leaves the record of every other chain as it
\* was: healthy, last_block_number, last_block_timestamp and lock.
ProbeLeavesOtherChains ==
    \A t \in HealthThreads :
        (InProbe(t) /\ threads'[t] # threads[t]) =>
            \A name \in DOMAIN blockchains \ {threads[t].blockchain} :
                blockchains'[name] = blockchains[name]

\* A probe that is under way has a next statement to run, whatever the other
\* chains' locks and flags are.
ProbeGoesOn == \A t \in HealthThreads : InProbe(t) => ENABLED ProbeStep(t)

\* A pass of authorization over a rule whose own chain is registered and
\* healthy queries the token, and grants on a sufficient balance.
RuleDecidedOnOwnChain ==
    (pc = "loop" /\ Len(trail') = Len(trail) + 1) =>
        LET e == trail'[Len(trail')]
            spec == storage_access_list[e.rule].authorization
        IN (spec.blockchain \in DOMAIN blockchains /\ blockchains[spec.blockchain].healthy) =>
              /\ e.queried
              /\ (e.answer.exc = None /\ e.answer.value[1] >= spec.minimum_balance.v[1]) =>
                    (e.verdict = "grant" /\ pc' = "done" /\ outcome' = Return(e.rule))

\* C27: a step of a probe of one chain changes nothing of another chain's
\* record; a probe under way can always go on, whatever the state of the
\* other chains; a rule on a healthy chain is queried and grants whatever the
\* state of the other chains.
C27_ChainsAreIndependent ==
    /\ [][ProbeLeavesOtherChains /\ RuleDecidedOnOwnChain]_vars
    /\ []ProbeGoesOn

\* The rule on wyrm was skipped for wyrm being unhealthy, the rule on eth
\* granted, and wyrm's lock is held by its timer's probe while the caller
\* is inside a probe of eth.
C27_Witness ==
    /\ pc = "done"
    /\ Len(trail) = 2
    /\ trail[1].verdict = "skip"
    /\ storage_access_list[trail[1].rule].authorization.blockchain = "wyrm"
    /\ trail[2].verdict = "grant"
    /\ storage_access_list[trail[2].rule].authorization.blockchain = "eth"
    /\ blockchains["wyrm"].lock
    /\ ~blockchains["wyrm"].healthy
    /\ threads["wyrm"].pc = "get_block"
    /\ threads["main"].blockchain = "eth"
    /\ threads["main"].pc = "release"

(***************************************************************************)
(* SpecTrait: the metadata blob at one S3 URI, and callers of add_trait    *)
(* with expect_unique=True on it, each call a get_object, the check of the *)
(* attributes it read, and a put_object of the whole document.             *)
(***************************************************************************)
MaxAttributes == 2
MaxAdds == 2

TraitCallers == {"first", "second"}
TraitTypes == {"color", "size"}
TraitValues == {"x", "y"}
Attributes == [trait_type : TraitTypes, value : TraitValues]

\* The trait_type values of an attributes array are pairwise distinct.
Distinct(attributes) ==
    \A i, j \in 1..Len(attributes) :
        i # j => attributes[i].trait_type # attributes[j].trait_type

\* metadata.get("attributes"), with None for a document without the key.
Metadata(has_attributes, attributes) ==
    [has_attributes |-> has_attributes, attributes |-> attributes]

\* The documents a blob can hold before the calls.
Blobs ==
    {Metadata(FALSE, <<>>)} \cup
    {Metadata(TRUE, attributes) :
        attributes \in {a \in SeqsOf(Attributes, 0, MaxAttributes) : Distinct(a)}}

NoCall ==
    [pc |-> "idle", adds |-> 0, trait_type |-> "none", value |-> "none",
     metadata |-> Metadata(FALSE, <<>>), found |-> FALSE, wrote |-> FALSE,
     result |-> "none"]

InitTrait ==
    /\ AuthIdle
    /\ mp = <<>>
    /\ ld = <<>>
    /\ HealthIdle
    /\ \E blob \in Blobs :
          s3 = [blob |-> blob, calls |-> [c \in TraitCallers |-> NoCall]]

traitVars ==
    <<storage_access_list, blockchains, pc, request, possible, k, outcome, trail, mp, ld,
      healthVars>>

\* line 64: a caller calls add_trait(s3_client, s3_uri, trait_type, value, True).
add_trait(c, trait_type, value) ==
    /\ s3.calls[c].pc = "idle"
    /\ s3.calls[c].adds < MaxAdds
    /\ s3' = [s3 EXCEPT !.calls[c] =
                 [NoCall EXCEPT !.pc = "get_metadata", !.adds = s3.calls[c].adds + 1,
                                !.trait_type = trait_type, !.value = value]]
    /\ UNCHANGED traitVars

\* lines 70-72: get_metadata reads the whole document; a document without
\* attributes gets an empty array.
get_metadata(c) ==
    /\ s3.calls[c].pc = "get_metadata"
    /\ s3' = [s3 EXCEPT !.calls[c].pc = "expect_unique",
                        !.calls[c].metadata =
                            IF s3.blob.has_attributes
                            THEN s3.blob
                            ELSE Metadata(TRUE, <<>>)]
    /\ UNCHANGED traitVars

\* The statements of lines 74-79 when expect_unique is False: the trait is
\* appended whatever the array holds.
add_trait_without_check(c) ==
    /\ s3.calls[c].pc = "expect_unique"
    /\ s3' = [s3 EXCEPT !.calls[c].pc = "update_metadata",
                        !.calls[c].metadata.attributes =
                            Append(@, [trait_type |-> s3.calls[c].trait_type,
                                       value |-> s3.calls[c].value])]
    /\ UNCHANGED traitVars

\* lines 74-79: with expect_unique, ValueError when the array that was read
\* holds the trait_type; otherwise the trait is appended to it.
add_trait_check(c) ==
    /\ s3.calls[c].pc = "expect_unique"
    /\ LET call == s3.calls[c]
           present == \E i \in 1..Len(call.metadata.attributes) :
                         call.metadata.attributes[i].trait_type = call.trait_type
       IN IF present
          THEN s3' = [s3 EXCEPT !.calls[c].pc = "idle", !.calls[c].found = TRUE,
                                !.calls[c].result = "ValueError"]
          ELSE s3' = [s3 EXCEPT !.calls[c].pc = "update_metadata",
                                !.calls[c].metadata.attributes =
                                    Append(@, [trait_type |-> call.trait_type,
                                               value |-> call.value])]
    /\ UNCHANGED traitVars

\* lines 81, 39-51: update_metadata puts the caller's document in the place
\* of the blob's, and add_trait returns the response.
update_metadata(c) ==
    /\ s3.calls[c].pc = "update_metadata"
    /\ s3' = [s3 EXCEPT !.blob = s3.calls[c].metadata,
                        !.calls[c].pc = "idle", !.calls[c].wrote = TRUE,
                        !.calls[c].result = "returned"]
    /\ UNCHANGED traitVars

NextTrait ==
    \/ \E c \in TraitCallers, trait_type \in TraitTypes, value \in TraitValues :
          add_trait(c, trait_type, value)
    \/ \E c \in TraitCallers : get_metadata(c)
    \/ \E c \in TraitCallers : add_trait_check(c)
    \/ \E c \in TraitCallers : update_metadata(c)

SpecTrait == InitTrait /\ [][NextTrait]_vars

\* C28: the stored attributes never hold one trait_type twice, and a call
\* that found its trait_type in the array it read has raised ValueError and
\* has written nothing, while a call that writes did not find it.
C28_UniqueTraitsKept ==
    /\ Distinct(s3.blob.attributes)
    /\ \A c \in TraitCallers :
          LET call == s3.calls[c]
          IN /\ call.found => (call.result = "ValueError" /\ ~call.wrote /\ call.pc = "idle")
             /\ call.result = "ValueError" => call.found
             /\ call.wrote => ~call.found

\* Two calls with the same trait_type ran interleaved, both passed the check
\* and both wrote; the blob holds the trait once, with the second's value.
C28_Witness ==
    /\ s3.calls["first"].wrote
    /\ s3.calls["second"].wrote
    /\ s3.calls["first"].adds = 1
    /\ s3.calls["second"].adds = 1
    /\ s3.calls["first"].trait_type = "color"
    /\ s3.calls["second"].trait_type = "color"
    /\ s3.calls["first"].value = "x"
    /\ s3.calls["second"].value = "y"
    /\ s3.blob.attributes = <<[trait_type |-> "color", value |-> "y"]>>

====
